---- MODULE Spec2Model ----
(***************************************************************************)
(* Model of the Odel extensions of ts-module-sdk: the context resolver     *)
(* (src/src/odel/context.ts) and the error taxonomy                        *)
(* (src/src/odel/errors.ts).                                               *)
(*                                                                         *)
(* JavaScript values are tagged records [t |-> tag, v |-> payload].        *)
(* A plain object is a function from its own property names to values;     *)
(* property reads fall back to Object.prototype, as the language does.     *)
(* The objects a handler can mutate (the secrets mappings) live on a heap  *)
(* and are held by reference, so that aliasing between contexts shows.     *)
(***************************************************************************)
EXTENDS Integers, Sequences, FiniteSets, TLC

(***************************************************************************)
(* Bounds of the model.                                                    *)
(***************************************************************************)
\* Date.now() at module load, when DEFAULT_MODULE_CONTEXT is built.
LoadTime == 1
\* The clock ticks from LoadTime up to MaxClock.
MaxClock == 2
\* crypto.randomUUID() is called at most MaxUuids times in a behaviour.
MaxUuids == 2
MaxTextLen == 3
MaxSegments == 2

(***************************************************************************)
(* JavaScript values.                                                      *)
(***************************************************************************)
Str(s) == [t |-> "string", v |-> s]
Num(n) == [t |-> "number", v |-> n]
Undefined == [t |-> "undefined", v |-> ""]
Null == [t |-> "null", v |-> ""]
\* An object held inline (a value that nothing mutates in the model).
Object(props) == [t |-> "object", v |-> props]
\* A reference to a mutable object of the heap.
Ref(a) == [t |-> "ref", v |-> a]
\* A member every plain object inherits from Object.prototype.
Builtin(name) == [t |-> "builtin", v |-> name]
\* An opaque host value (the Worker's env bindings), known by identity only.
Host(id) == [t |-> "host", v |-> id]

EmptyProps == [k \in {} |-> Undefined]

\* Names every plain object answers to without owning them.
ObjectPrototypeKeys == {"constructor", "toString", "__proto__"}

\* `!value` is true of undefined, null, "", 0; objects and functions are truthy.
Falsy(value) ==
    \/ value.t \in {"undefined", "null"}
    \/ value.t = "string" /\ value.v = ""
    \/ value.t = "number" /\ value.v = 0

\* a || b where the code has a ?? b: "" and 0 fall back to the default too.
CoalesceFalsy(a, b) == IF Falsy(a) THEN b ELSE a

\* a ?? b
Coalesce(a, b) == IF a.t \in {"undefined", "null"} THEN b ELSE a

\* The own properties of an object value, inline or on the heap.
Props(heap, obj) == IF obj.t = "ref" THEN heap[obj.v] ELSE obj.v

\* obj[key] on a plain object: an own property, else what Object.prototype
\* holds under that name, else undefined.
Get(heap, obj, key) ==
    LET own == Props(heap, obj)
    IN  IF key \in DOMAIN own THEN own[key]
        ELSE IF key \in ObjectPrototypeKeys THEN Builtin(key)
        ELSE Undefined

\* { ...obj, key: value } and { ...a, ...b }: own properties, the right wins.
Spread(a, b) ==
    [k \in DOMAIN a \cup DOMAIN b |-> IF k \in DOMAIN b THEN b[k] ELSE a[k]]

(***************************************************************************)
(* Error values (errors.ts).  An error is its class chain, which decides   *)
(* instanceof, and its own properties.                                     *)
(***************************************************************************)
MISSING_SECRET == 2001

ErrorValue(classes, props) == [t |-> "error", v |-> [classes |-> classes, props |-> props]]

\* new Error(message)
NewError(message) ==
    ErrorValue({"Error"}, [name |-> Str("Error"), message |-> Str(message)])

\* A ModuleError whose constructor leaves the name Error gave it.
NewModuleErrorUnnamed(code, message, metadata) ==
    ErrorValue({"Error", "ModuleError"},
               [name |-> Str("Error"), message |-> Str(message),
                code |-> Num(code), metadata |-> metadata])

\* new ModuleError(code, message, metadata): metadata is an object or Undefined.
NewModuleError(code, message, metadata) ==
    ErrorValue({"Error", "ModuleError"},
               [name |-> Str("ModuleError"), message |-> Str(message),
                code |-> Num(code), metadata |-> metadata])

\* ModuleError.missingSecret(secretName)
missingSecret(secretName) ==
    NewModuleError(MISSING_SECRET,
                   "Required secret \"" \o secretName \o "\" is not configured",
                   Object([secretName |-> Str(secretName)]))

\* error[key] on an error value: an own property or undefined.
ErrorProp(error, key) ==
    IF key \in DOMAIN error.v.props THEN error.v.props[key] ELSE Undefined

\* The outcome of a call: a returned value or a thrown one.
Return(value) == [outcome |-> "return", value |-> value]
Throw(value) == [outcome |-> "throw", value |-> value]

(***************************************************************************)
(* The context resolver (context.ts).                                      *)
(***************************************************************************)
\* Where DEFAULT_MODULE_CONTEXT.secrets, the one `{}` built at load, lives.
DefaultSecretsAddr == 0

\* The default object spelling its optional fields out as empty strings.
DefaultContextEmptyOptionals ==
    Object([userId |-> Str("anonymous"),
            conversationId |-> Str(""),
            displayName |-> Str(""),
            timestamp |-> Num(LoadTime),
            requestId |-> Str("no-request-id"),
            secrets |-> Ref(DefaultSecretsAddr)])

DEFAULT_MODULE_CONTEXT ==
    Object([userId |-> Str("anonymous"),
            displayName |-> Str("Anonymous User"),
            timestamp |-> Num(LoadTime),
            requestId |-> Str("no-request-id"),
            secrets |-> Ref(DefaultSecretsAddr)])

\* crypto.randomUUID(): the identifier source never repeats itself.
randomUUID(generated) == Str("uuid-" \o ToString(generated + 1))

\* A new object gets an address no live object has.
NewAddr(heap) == Cardinality(DOMAIN heap)

\* heap with a new object holding props.
Alloc(heap, props) ==
    [a \in DOMAIN heap \cup {NewAddr(heap)} |->
        IF a \in DOMAIN heap THEN heap[a] ELSE props]

\* Returning the shared default as it stands: its load-time timestamp and
\* its 'no-request-id'.
anonymousContextStale(w) ==
    [ret |-> DEFAULT_MODULE_CONTEXT, uuids |-> w.uuids, heap |-> w.heap]

\* The branch of extractContext taken when body.context is falsy:
\* { ...DEFAULT_MODULE_CONTEXT, timestamp: Date.now(), requestId: randomUUID() }
anonymousContext(w) ==
    [ret |-> Object(Spread(DEFAULT_MODULE_CONTEXT.v,
                           [timestamp |-> Num(w.now),
                            requestId |-> randomUUID(w.uuids)])),
     uuids |-> w.uuids + 1,
     heap |-> w.heap]

\* extractContext(body) in the world w = [now, uuids, heap]: the value
\* returned, and the identifier count and heap it leaves behind.  The right
\* operand of ?? is evaluated only when the left one is nullish.
extractContext(body, w) ==
    LET ctx == Get(w.heap, body, "context")
        D == DEFAULT_MODULE_CONTEXT.v
    IN  IF Falsy(ctx)
        THEN anonymousContext(w)
        ELSE LET givenId == Get(w.heap, ctx, "requestId")
                 givenSecrets == Get(w.heap, ctx, "secrets")
                 needId == givenId.t \in {"undefined", "null"}
                 needSecrets == givenSecrets.t \in {"undefined", "null"}
             IN  [ret |-> Object(
                     [userId |-> Coalesce(Get(w.heap, ctx, "userId"), D.userId),
                      conversationId |-> Get(w.heap, ctx, "conversationId"),
                      displayName |-> Coalesce(Get(w.heap, ctx, "displayName"), D.displayName),
                      timestamp |-> Coalesce(Get(w.heap, ctx, "timestamp"), Num(w.now)),
                      requestId |-> Coalesce(givenId, randomUUID(w.uuids)),
                      secrets |-> Coalesce(givenSecrets, Ref(NewAddr(w.heap)))]),
                  uuids |-> IF needId THEN w.uuids + 1 ELSE w.uuids,
                  heap |-> IF needSecrets THEN Alloc(w.heap, EmptyProps) ELSE w.heap]

\* { env, ...moduleContext }: an env the context already carries wins.
createToolContextEnvFirst(moduleContext, env) ==
    Object(Spread([env |-> env], moduleContext.v))

\* createToolContext(moduleContext, env): { ...moduleContext, env }
createToolContext(moduleContext, env) ==
    Object(Spread(moduleContext.v, [env |-> env]))

\* Skipping the merge with body.context: every caller gets the defaults.
extractToolContextAnonymous(body, env, w) ==
    LET r == anonymousContext(w)
    IN  [ret |-> createToolContext(r.ret, env), uuids |-> r.uuids, heap |-> r.heap]

\* extractToolContext(body, env)
extractToolContext(body, env, w) ==
    LET r == extractContext(body, w)
    IN  [ret |-> createToolContext(r.ret, env), uuids |-> r.uuids, heap |-> r.heap]

\* getRequiredSecret(context, secretName)
getRequiredSecret(heap, context, secretName) ==
    LET value == Get(heap, Get(heap, context, "secrets"), secretName)
    IN  IF Falsy(value)
        THEN Throw(NewError("Required secret \"" \o secretName \o "\" is not configured"))
        ELSE Return(value)

\* getOptionalSecret(context, secretName)
getOptionalSecret(heap, context, secretName) ==
    Return(Get(heap, Get(heap, context, "secrets"), secretName))

(***************************************************************************)
(* The inputs: the request bodies the transport hands over, the env        *)
(* bindings of the host, the secret names a handler asks for.              *)
(***************************************************************************)
ContextFields ==
    {"userId", "conversationId", "displayName", "timestamp", "requestId", "secrets"}

UserIds == {"", "user_abc123"}

SuppliedSecrets ==
    {EmptyProps, [API_KEY |-> Str("sk-test-key"), EMPTY_KEY |-> Str("")]}

SuppliedValue(field, userId, secrets) ==
    CASE field = "userId" -> Str(userId)
      [] field = "conversationId" -> Str("conv_xyz789")
      [] field = "displayName" -> Str("Test User")
      [] field = "timestamp" -> Num(0)
      [] field = "requestId" -> Str("req_123")
      [] field = "secrets" -> Object(secrets)

\* Partial<ModuleContext>: any subset of the fields.
PartialContexts ==
    UNION { { [k \in K |-> SuppliedValue(k, u, s)] : u \in UserIds, s \in SuppliedSecrets }
            : K \in SUBSET ContextFields }

\* RequestBodyWithContext: no context field, a null one, or a partial context.
RequestBodies ==
    {Object(EmptyProps), Object([context |-> Null])}
        \cup { Object([context |-> Object(c)]) : c \in PartialContexts }

Envs == {Host("env-1"), Host("env-2")}

SecretNames == {"API_KEY", "EMPTY_KEY", "MISSING_KEY", "toString"}

(***************************************************************************)
(* The state.                                                              *)
(***************************************************************************)
VARIABLES
    clock,   \* what Date.now() returns
    uuids,   \* how many identifiers crypto.randomUUID() has handed out
    heap,    \* the secrets mappings: address -> own properties
    req,     \* the request being handled: its body, the context extracted
    call     \* the last call of the handler on that context, and its outcome

vars == <<clock, uuids, heap, req, call>>

NoRequest == [op |-> "none"]
NoCall == [op |-> "none"]

Init ==
    /\ clock = LoadTime
    /\ uuids = 0
    /\ heap = [a \in {DefaultSecretsAddr} |-> EmptyProps]
    /\ req = NoRequest
    /\ call = NoCall

\* The body as parsed from the request: its secrets mapping is a new object.
Received(body, h) ==
    LET c == IF "context" \in DOMAIN body.v THEN body.v.context ELSE Undefined
    IN  IF c.t = "object" /\ "secrets" \in DOMAIN c.v
        THEN [body |-> Object([context |->
                          Object(Spread(c.v, [secrets |-> Ref(NewAddr(h))]))]),
              heap |-> Alloc(h, c.v.secrets.v)]
        ELSE [body |-> body, heap |-> h]

\* What outlives a request: the objects reachable from module scope.
ModuleScope(h) == [a \in {DefaultSecretsAddr} |-> h[a]]

\* The secrets mapping of a context, as it stands in heap h.
SecretsOf(h, context) == h[context.v.secrets.v]

Tick ==
    /\ clock < MaxClock
    /\ clock' = clock + 1
    /\ UNCHANGED <<uuids, heap, req, call>>

\* A request arrives (requests are served one at a time) and its handler
\* calls extractContext(body).
ExtractContextCall ==
    \E b \in RequestBodies :
        LET rcv == Received(b, heap)
            w == [now |-> clock, uuids |-> uuids, heap |-> rcv.heap]
            r == extractContext(rcv.body, w)
        IN  /\ req.op = "none"
            /\ r.uuids <= MaxUuids
            /\ uuids' = r.uuids
            /\ heap' = r.heap
            /\ req' = [op |-> "extractContext", body |-> rcv.body, env |-> Undefined,
                       world |-> w, ctx |-> r.ret,
                       returnedSecrets |-> SecretsOf(r.heap, r.ret)]
            /\ call' = NoCall
            /\ UNCHANGED clock

\* A request arrives and its handler calls extractToolContext(body, env).
ExtractToolContextCall ==
    \E b \in RequestBodies, e \in Envs :
        LET rcv == Received(b, heap)
            w == [now |-> clock, uuids |-> uuids, heap |-> rcv.heap]
            r == extractToolContext(rcv.body, e, w)
        IN  /\ req.op = "none"
            /\ r.uuids <= MaxUuids
            /\ uuids' = r.uuids
            /\ heap' = r.heap
            /\ req' = [op |-> "extractToolContext", body |-> rcv.body, env |-> e,
                       world |-> w, ctx |-> r.ret,
                       returnedSecrets |-> SecretsOf(r.heap, r.ret)]
            /\ call' = NoCall
            /\ UNCHANGED clock

\* The handler calls createToolContext(context, env) on its context.
CreateToolContextCall ==
    /\ req.op # "none"
    /\ \E e \in Envs :
        call' = [op |-> "createToolContext", name |-> "", env |-> e,
                 result |-> Return(createToolContext(req.ctx, e))]
    /\ UNCHANGED <<clock, uuids, heap, req>>

\* The handler calls getRequiredSecret(context, secretName).
GetRequiredSecretCall ==
    /\ req.op # "none"
    /\ \E n \in SecretNames :
        call' = [op |-> "getRequiredSecret", name |-> n, env |-> Undefined,
                 result |-> getRequiredSecret(heap, req.ctx, n)]
    /\ UNCHANGED <<clock, uuids, heap, req>>

\* The handler calls getOptionalSecret(context, secretName).
GetOptionalSecretCall ==
    /\ req.op # "none"
    /\ \E n \in SecretNames :
        call' = [op |-> "getOptionalSecret", name |-> n, env |-> Undefined,
                 result |-> getOptionalSecret(heap, req.ctx, n)]
    /\ UNCHANGED <<clock, uuids, heap, req>>

\* The handler writes context.secrets.API_KEY = "sk-written": nothing in
\* ModuleContext makes its secrets read-only.
HandlerWrite ==
    /\ req.op # "none"
    /\ heap' = [heap EXCEPT ![req.ctx.v.secrets.v] =
                    Spread(@, [API_KEY |-> Str("sk-written")])]
    /\ call' = [op |-> "write", name |-> "API_KEY", env |-> Undefined,
                result |-> Return(Undefined)]
    /\ UNCHANGED <<clock, uuids, req>>

\* The handler returns: its context and what only it referred to are garbage.
Finish ==
    /\ req.op # "none"
    /\ heap' = ModuleScope(heap)
    /\ req' = NoRequest
    /\ call' = NoCall
    /\ UNCHANGED <<clock, uuids>>

Next ==
    \/ Tick
    \/ ExtractContextCall
    \/ ExtractToolContextCall
    \/ CreateToolContextCall
    \/ GetRequiredSecretCall
    \/ GetOptionalSecretCall
    \/ HandlerWrite
    \/ Finish

Spec == Init /\ [][Next]_vars

(***************************************************************************)
(* What the request supplied, for stating the claims.                      *)
(***************************************************************************)
\* The context object of the request being handled, or Undefined/Null.
RequestContext == Get(req.world.heap, req.body, "context")

HasContextObject == req.op # "none" /\ RequestContext.t = "object"

\* The request's context is an object that has the field.
Supplied(field) == HasContextObject /\ field \in DOMAIN RequestContext.v

\* The request's context is an object that lacks the field.
Omitted(field) == HasContextObject /\ field \notin DOMAIN RequestContext.v

\* The body has no context field at all.
NoContextField == req.op # "none" /\ "context" \notin DOMAIN req.body.v

\* A field of the context returned to the handler.
Returned(field) == Get(heap, req.ctx, field)

\* The entries of the secrets mapping the handler's context refers to.
CurrentSecrets == SecretsOf(heap, req.ctx)

MissingSecretMessage(name) == "Required secret \"" \o name \o "\" is not configured"

(***************************************************************************)
(* C1.  Whenever getRequiredSecret raises, the raised value is a           *)
(* ModuleError whose code is MISSING_SECRET (2001), the error the          *)
(* missingSecret factory produces.                                         *)
(***************************************************************************)
C1_RaisesMissingSecretModuleError ==
    (call.op = "getRequiredSecret" /\ call.result.outcome = "throw") =>
        /\ "ModuleError" \in call.result.value.v.classes
        /\ ErrorProp(call.result.value, "code") = Num(MISSING_SECRET)
        /\ call.result.value = missingSecret(call.name)

(***************************************************************************)
(* C2.  getRequiredSecret(context, name) raises an error with message      *)
(* 'Required secret "{name}" is not configured' if and only if name is     *)
(* absent from context.secrets or mapped to ""; otherwise it returns the   *)
(* mapped value unchanged.  The context is unchanged in both cases.        *)
(***************************************************************************)
C2_RequiredSecretContract ==
    [][call'.op = "getRequiredSecret" =>
        LET own == SecretsOf(heap', req'.ctx)
            n == call'.name
            missing == n \notin DOMAIN own \/ own[n] = Str("")
        IN  /\ missing =>
                /\ call'.result.outcome = "throw"
                /\ ErrorProp(call'.result.value, "message") = Str(MissingSecretMessage(n))
            /\ ~missing => call'.result = Return(own[n])
            /\ heap' = heap
            /\ req' = req]_vars

(***************************************************************************)
(* C3.  getOptionalSecret(context, name) never raises; it returns the      *)
(* mapped value unchanged when name is a key of context.secrets ("" for a  *)
(* key mapped to "") and undefined when name is not a key.                 *)
(***************************************************************************)
C3_OptionalSecretContract ==
    call.op = "getOptionalSecret" =>
        /\ call.result.outcome = "return"
        /\ call.name \in DOMAIN CurrentSecrets =>
               call.result.value = CurrentSecrets[call.name]
        /\ call.name \notin DOMAIN CurrentSecrets =>
               call.result.value = Undefined

(***************************************************************************)
(* C4.  extractContext on a body with no context field returns userId      *)
(* 'anonymous', displayName 'Anonymous User', no conversationId, the empty *)
(* secrets mapping, the clock reading of the call as timestamp and a newly *)
(* generated requestId.                                                    *)
(***************************************************************************)
C4_DefaultsWhenNoContext ==
    (req.op = "extractContext" /\ NoContextField) =>
        /\ Returned("userId") = Str("anonymous")
        /\ Returned("displayName") = Str("Anonymous User")
        /\ Returned("conversationId") = Undefined
        /\ req.returnedSecrets = EmptyProps
        /\ Returned("timestamp") = Num(req.world.now)
        /\ Returned("requestId") = randomUUID(req.world.uuids)

(***************************************************************************)
(* C8.  Contexts are not shared across requests: a handler's write to its  *)
(* context.secrets never shows through DEFAULT_MODULE_CONTEXT (whose       *)
(* secrets stay empty) nor through the context returned for another        *)
(* request (whose secrets hold what that request supplied, or nothing).    *)
(***************************************************************************)
C8_ContextsNotShared ==
    /\ heap[DefaultSecretsAddr] = EmptyProps
    /\ req.op # "none" =>
        req.returnedSecrets =
            (IF Supplied("secrets")
             THEN SecretsOf(req.world.heap, RequestContext) ELSE EmptyProps)

(***************************************************************************)
(* C5.  With a context object in the body, extractContext defaults each    *)
(* field on its own: a supplied field comes back verbatim (also timestamp  *)
(* 0, userId "" and an empty secrets mapping), an omitted one gets its     *)
(* default (userId 'anonymous', displayName 'Anonymous User', timestamp =  *)
(* now, requestId = a new identifier, secrets = an empty mapping),         *)
(* whatever else was supplied.                                             *)
(***************************************************************************)
DefaultOf(field) ==
    CASE field = "userId" -> Str("anonymous")
      [] field = "displayName" -> Str("Anonymous User")
      [] field = "timestamp" -> Num(req.world.now)
      [] field = "requestId" -> randomUUID(req.world.uuids)

C5_FieldsDefaultIndependently ==
    (req.op = "extractContext" /\ HasContextObject) =>
        /\ \A f \in ContextFields :
               Supplied(f) => req.ctx.v[f] = RequestContext.v[f]
        /\ \A f \in {"userId", "displayName", "timestamp", "requestId"} :
               Omitted(f) => req.ctx.v[f] = DefaultOf(f)
        /\ Supplied("secrets") =>
               req.returnedSecrets = SecretsOf(req.world.heap, RequestContext)
        /\ Omitted("secrets") =>
               /\ req.returnedSecrets = EmptyProps
               /\ req.ctx.v.secrets.t = "ref"
               /\ req.ctx.v.secrets.v \notin DOMAIN req.world.heap

\* A context with falsy supplied values next to omitted fields.
C5_Witness ==
    /\ req.op = "extractContext"
    /\ HasContextObject
    /\ DOMAIN RequestContext.v = {"userId", "timestamp", "secrets"}
    /\ req.ctx.v.userId = Str("")
    /\ req.ctx.v.timestamp = Num(0)
    /\ req.returnedSecrets = EmptyProps
    /\ req.ctx.v.displayName = Str("Anonymous User")
    /\ req.ctx.v.requestId = randomUUID(req.world.uuids)

(***************************************************************************)
(* C6.  As claimed: in the result of extractContext, conversationId and    *)
(* displayName are both absent (undefined) whenever the request's context  *)
(* did not supply them.                                                    *)
(***************************************************************************)
C6_OptionalFieldsStayAbsent ==
    req.op # "none" =>
        /\ ~Supplied("conversationId") => Returned("conversationId") = Undefined
        /\ ~Supplied("displayName") => Returned("displayName") = Undefined

(***************************************************************************)
(* C6, amended.  conversationId is absent (undefined) in the result        *)
(* whenever the request's context did not supply it; displayName, when not *)
(* supplied, is the default 'Anonymous User', never absent and never "".   *)
(***************************************************************************)
C6_ConversationIdStaysAbsent ==
    req.op # "none" =>
        /\ ~Supplied("conversationId") => Returned("conversationId") = Undefined
        /\ ~Supplied("displayName") => Returned("displayName") = Str("Anonymous User")

\* Both ways of not supplying them: a context object without the two fields,
\* or no context at all.
C6_Witness ==
    /\ req.op = "extractContext"
    /\ ~Supplied("conversationId")
    /\ ~Supplied("displayName")
    /\ Supplied("userId")
    /\ Returned("conversationId") = Undefined

(***************************************************************************)
(* C7.  Over any sequence of extractContext calls: when the request does   *)
(* not supply timestamp, the returned timestamp is the clock reading of    *)
(* that call; when it does not supply requestId, the returned requestId is *)
(* generated during that call and differs from every identifier generated  *)
(* before; the timestamp and requestId stored in DEFAULT_MODULE_CONTEXT    *)
(* are not what comes back.                                                *)
(***************************************************************************)
C7_FreshTimestampAndRequestId ==
    req.op # "none" =>
        /\ ~Supplied("timestamp") =>
               /\ Returned("timestamp") = Num(req.world.now)
               /\ req.world.now > LoadTime =>
                      Returned("timestamp") # DEFAULT_MODULE_CONTEXT.v.timestamp
        /\ ~Supplied("requestId") =>
               /\ Returned("requestId") = randomUUID(req.world.uuids)
               /\ \A i \in 0..(req.world.uuids - 1) :
                      Returned("requestId") # randomUUID(i)
               /\ Returned("requestId") # DEFAULT_MODULE_CONTEXT.v.requestId
               /\ uuids > req.world.uuids

\* A second request without a context, after the clock has moved on.
C7_Witness ==
    /\ req.op = "extractContext"
    /\ NoContextField
    /\ req.world.uuids = 1
    /\ req.world.now > LoadTime
    /\ Returned("timestamp") = Num(req.world.now)
    /\ Returned("requestId") = randomUUID(1)

(***************************************************************************)
(* C9.  createToolContext(context, env) never raises and validates         *)
(* nothing; the value returned has the context's userId, conversationId,   *)
(* displayName, timestamp, requestId and secrets and has env = the env     *)
(* given, also when the context already carries an env; the context given  *)
(* is left as it was.                                                      *)
(***************************************************************************)
C9_CreateToolContextAddsEnv ==
    [][call'.op = "createToolContext" =>
        /\ call'.result.outcome = "return"
        /\ call'.result.value.t = "object"
        /\ DOMAIN call'.result.value.v = DOMAIN req.ctx.v \cup {"env"}
        /\ \A f \in ContextFields :
               Get(heap', call'.result.value, f) = Get(heap, req.ctx, f)
        /\ call'.result.value.v.env = call'.env
        /\ req' = req
        /\ heap' = heap]_vars

\* The context given already carries another env.
C9_Witness ==
    /\ call.op = "createToolContext"
    /\ req.op = "extractToolContext"
    /\ req.env # call.env
    /\ call.result.value.v.env = call.env
    /\ Returned("env") = req.env

(***************************************************************************)
(* C10.  Under the same clock reading and identifier source,               *)
(* extractToolContext(body, env) equals                                    *)
(* createToolContext(extractContext(body), env).                           *)
(***************************************************************************)
C10_ExtractToolContextIsComposition ==
    req.op = "extractToolContext" =>
        LET r == extractContext(req.body, req.world)
        IN  /\ req.ctx = createToolContext(r.ret, req.env)
            /\ req.returnedSecrets = SecretsOf(r.heap, r.ret)

\* A partial context, so that defaults, a new identifier and env all show.
C10_Witness ==
    /\ req.op = "extractToolContext"
    /\ HasContextObject
    /\ DOMAIN RequestContext.v = {"userId", "secrets"}
    /\ Returned("env") = req.env
    /\ Returned("requestId") = randomUUID(req.world.uuids)
    /\ Returned("displayName") = Str("Anonymous User")

(***************************************************************************)
(* The error taxonomy (errors.ts): the codes, the factories, toJSON.       *)
(***************************************************************************)
Bool(b) == [t |-> "boolean", v |-> b]

\* enum ErrorCode with TIMEOUT given NETWORK_ERROR's number.
ErrorCodeClash ==
    [INVALID_INPUT |-> 1001, MISSING_REQUIRED_FIELD |-> 1002, INVALID_FORMAT |-> 1003,
     MISSING_SECRET |-> MISSING_SECRET, INVALID_SECRET |-> 2002, UNAUTHORIZED |-> 2003,
     API_ERROR |-> 3001, NETWORK_ERROR |-> 3002, TIMEOUT |-> 3002, NOT_FOUND |-> 3004,
     RATE_LIMIT_EXCEEDED |-> 4001, QUOTA_EXCEEDED |-> 4002,
     INTERNAL_ERROR |-> 5001, NOT_IMPLEMENTED |-> 5002, CONFIGURATION_ERROR |-> 5003]

\* enum ErrorCode
ErrorCode ==
    [INVALID_INPUT |-> 1001, MISSING_REQUIRED_FIELD |-> 1002, INVALID_FORMAT |-> 1003,
     MISSING_SECRET |-> MISSING_SECRET, INVALID_SECRET |-> 2002, UNAUTHORIZED |-> 2003,
     API_ERROR |-> 3001, NETWORK_ERROR |-> 3002, TIMEOUT |-> 3003, NOT_FOUND |-> 3004,
     RATE_LIMIT_EXCEEDED |-> 4001, QUOTA_EXCEEDED |-> 4002,
     INTERNAL_ERROR |-> 5001, NOT_IMPLEMENTED |-> 5002, CONFIGURATION_ERROR |-> 5003]

\* toJSON() leaving metadata out of the envelope altogether.
toJSONWithoutMetadata(error) ==
    Object([success |-> Bool(FALSE),
            error |-> ErrorProp(error, "message"),
            code |-> ErrorProp(error, "code")])

\* toJSON(): { success: false, error: this.message, code: this.code,
\*             ...(this.metadata && { metadata: this.metadata }) }
toJSON(error) ==
    LET metadata == ErrorProp(error, "metadata")
    IN  Object(Spread([success |-> Bool(FALSE),
                       error |-> ErrorProp(error, "message"),
                       code |-> ErrorProp(error, "code")],
                      IF Falsy(metadata) THEN EmptyProps ELSE [metadata |-> metadata]))

\* The factories.  message, fieldName, ... are strings; the optional
\* arguments are JavaScript values, Undefined when left out.
validationError(message, metadata) ==
    NewModuleError(ErrorCode.INVALID_INPUT, message, metadata)

missingField(fieldName) ==
    NewModuleError(ErrorCode.MISSING_REQUIRED_FIELD,
                   "Required field \"" \o fieldName \o "\" is missing",
                   Object([field |-> Str(fieldName)]))

invalidSecret(secretName, reason) ==
    NewModuleError(ErrorCode.INVALID_SECRET,
                   IF ~Falsy(reason)
                   THEN "Secret \"" \o secretName \o "\" is invalid: " \o reason.v
                   ELSE "Secret \"" \o secretName \o "\" is invalid",
                   Object([secretName |-> Str(secretName)]))

apiError(message, metadata) ==
    NewModuleError(ErrorCode.API_ERROR, message, metadata)

\* networkError forgetting to hand its metadata on.
networkErrorBare(message, metadata) ==
    NewModuleError(ErrorCode.NETWORK_ERROR, message, Undefined)

networkError(message, metadata) ==
    NewModuleError(ErrorCode.NETWORK_ERROR, message, metadata)

timeout(operation, timeoutMs) ==
    NewModuleError(ErrorCode.TIMEOUT,
                   "Operation \"" \o operation \o "\" timed out",
                   IF ~Falsy(timeoutMs) THEN Object([timeoutMs |-> timeoutMs]) ELSE Undefined)

notFound(resource, identifier) ==
    NewModuleError(ErrorCode.NOT_FOUND,
                   IF ~Falsy(identifier)
                   THEN resource \o " \"" \o identifier.v \o "\" not found"
                   ELSE resource \o " not found",
                   IF ~Falsy(identifier) THEN Object([identifier |-> identifier]) ELSE Undefined)

\* rateLimitError reporting the neighbouring code of its band.
rateLimitErrorAsQuota(retryAfter) ==
    NewModuleError(ErrorCode.QUOTA_EXCEEDED, "Rate limit exceeded",
                   IF ~Falsy(retryAfter) THEN Object([retryAfter |-> retryAfter]) ELSE Undefined)

rateLimitError(retryAfter) ==
    NewModuleError(ErrorCode.RATE_LIMIT_EXCEEDED, "Rate limit exceeded",
                   IF ~Falsy(retryAfter) THEN Object([retryAfter |-> retryAfter]) ELSE Undefined)

quotaExceeded(quotaType) ==
    NewModuleError(ErrorCode.QUOTA_EXCEEDED,
                   IF ~Falsy(quotaType) THEN quotaType.v \o " quota exceeded" ELSE "Quota exceeded",
                   IF ~Falsy(quotaType) THEN Object([quotaType |-> quotaType]) ELSE Undefined)

internalError(message, metadata) ==
    NewModuleError(ErrorCode.INTERNAL_ERROR, message, metadata)

notImplemented(feature) ==
    NewModuleError(ErrorCode.NOT_IMPLEMENTED,
                   "Feature \"" \o feature \o "\" is not implemented",
                   Object([feature |-> Str(feature)]))

configurationError(message, metadata) ==
    NewModuleError(ErrorCode.CONFIGURATION_ERROR, message, metadata)

\* One way of building a ModuleError: `how` names the constructor or a
\* factory, args are its arguments in order, Undefined for one left out.
MakeError(how, args) ==
    CASE how = "constructor" -> NewModuleError(args[1].v, args[2].v, args[3])
      [] how = "validationError" -> validationError(args[1].v, args[2])
      [] how = "missingField" -> missingField(args[1].v)
      [] how = "missingSecret" -> missingSecret(args[1].v)
      [] how = "invalidSecret" -> invalidSecret(args[1].v, args[2])
      [] how = "apiError" -> apiError(args[1].v, args[2])
      [] how = "networkError" -> networkError(args[1].v, args[2])
      [] how = "timeout" -> timeout(args[1].v, args[2])
      [] how = "notFound" -> notFound(args[1].v, args[2])
      [] how = "rateLimitError" -> rateLimitError(args[1])
      [] how = "quotaExceeded" -> quotaExceeded(args[1])
      [] how = "internalError" -> internalError(args[1].v, args[2])
      [] how = "notImplemented" -> notImplemented(args[1].v)
      [] how = "configurationError" -> configurationError(args[1].v, args[2])

(***************************************************************************)
(* The calls a module makes on the error taxonomy.                         *)
(***************************************************************************)
PassThrough ==
    {"validationError", "apiError", "networkError", "internalError", "configurationError"}

Messages == {"", "External API failed"}
Names == {"", "API_KEY"}
MetadataInputs == {Undefined, Object(EmptyProps), Object([statusCode |-> Num(500)])}
OptionalStrings == {Undefined, Str(""), Str("user_123")}
OptionalNumbers == {Undefined, Num(0), Num(30000)}

Codes == {ErrorCode[k] : k \in DOMAIN ErrorCode}

ErrorCalls ==
    {[how |-> "constructor", args |-> <<Num(c), Str("Test error"), m>>] :
        c \in Codes, m \in MetadataInputs}
    \cup {[how |-> f, args |-> <<Str(msg), m>>] :
        f \in PassThrough, msg \in Messages, m \in MetadataInputs}
    \cup {[how |-> f, args |-> <<Str(n)>>] :
        f \in {"missingField", "missingSecret", "notImplemented"}, n \in Names}
    \cup {[how |-> "invalidSecret", args |-> <<Str(n), r>>] :
        n \in Names, r \in OptionalStrings}
    \cup {[how |-> "notFound", args |-> <<Str(n), i>>] :
        n \in {"User"}, i \in OptionalStrings}
    \cup {[how |-> "quotaExceeded", args |-> <<q>>] : q \in OptionalStrings}
    \cup {[how |-> "timeout", args |-> <<Str(n), ms>>] :
        n \in {"fetchData"}, ms \in OptionalNumbers}
    \cup {[how |-> "rateLimitError", args |-> <<ms>>] : ms \in OptionalNumbers}

\* The arguments as the caller holds them: a mapping the caller wrote is an
\* object of its own on the heap, passed by reference.
Passed(args, h) ==
    [args |-> [i \in DOMAIN args |->
                  IF args[i].t = "object" THEN Ref(NewAddr(h)) ELSE args[i]],
     heap |-> IF \E i \in DOMAIN args : args[i].t = "object"
              THEN Alloc(h, args[CHOOSE i \in DOMAIN args : args[i].t = "object"].v)
              ELSE h]

\* The error as it stands after construction: an object literal a factory
\* wrote for metadata is a new object on the heap.
Constructed(error, h) ==
    LET metadata == ErrorProp(error, "metadata")
    IN  IF metadata.t = "object"
        THEN [error |-> ErrorValue(error.v.classes,
                            Spread(error.v.props, [metadata |-> Ref(NewAddr(h))])),
              heap |-> Alloc(h, metadata.v)]
        ELSE [error |-> error, heap |-> h]

\* A value with the objects it refers to written out.
Deep(h, value) ==
    CASE value.t = "ref" -> Object(h[value.v])
      [] value.t = "object" ->
            Object([k \in DOMAIN value.v |->
                       IF value.v[k].t = "ref" THEN Object(h[value.v[k].v])
                       ELSE value.v[k]])
      [] OTHER -> value

\* code, message and metadata of an error, written out.
Fields(h, error) ==
    [code |-> ErrorProp(error, "code"), message |-> ErrorProp(error, "message"),
     metadata |-> Deep(h, ErrorProp(error, "metadata"))]

WriteKeys == {"statusCode", "tampered"}

\* The module builds an error by the constructor or a factory.
ConstructCall ==
    \E c \in ErrorCalls :
        LET p == Passed(c.args, heap)
            e == Constructed(MakeError(c.how, p.args), p.heap)
        IN  /\ req.op = "none"
            /\ heap' = e.heap
            /\ req' = [op |-> "error", how |-> c.how, given |-> c.args,
                       args |-> p.args, error |-> e.error,
                       made |-> Fields(e.heap, e.error), first |-> Undefined]
            /\ call' = NoCall
            /\ UNCHANGED <<clock, uuids>>

\* error.toJSON()
ToJSONCall ==
    /\ req.op = "error"
    /\ call' = [op |-> "toJSON", result |-> Return(toJSON(req.error))]
    /\ req' = [req EXCEPT !.first =
                  IF @ = Undefined THEN Deep(heap, toJSON(req.error)) ELSE @]
    /\ UNCHANGED <<clock, uuids, heap>>

\* The caller writes a property of the mapping it passed as metadata.
CallerWrite ==
    /\ req.op = "error"
    /\ \E i \in DOMAIN req.args, k \in WriteKeys :
        /\ req.args[i].t = "ref"
        /\ heap' = [heap EXCEPT ![req.args[i].v] = Spread(@, [w \in {k} |-> Str("changed")])]
        /\ call' = [op |-> "callerWrite", result |-> Return(Undefined)]
        /\ UNCHANGED <<clock, uuids, req>>

\* The holder of an envelope writes a property of envelope.metadata.
EnvelopeWrite ==
    \E k \in WriteKeys :
        /\ req.op = "error"
        /\ call.op = "toJSON"
        /\ "metadata" \in DOMAIN call.result.value.v
        /\ heap' = [heap EXCEPT ![call.result.value.v.metadata.v] =
                        Spread(@, [w \in {k} |-> Str("changed")])]
        /\ call' = [op |-> "envelopeWrite", result |-> Return(Undefined)]
        /\ UNCHANGED <<clock, uuids, req>>

\* try { throw error } catch (e) { ... }: the handler is given the value raised.
RaiseAndCatch ==
    /\ req.op = "error"
    /\ call' = [op |-> "catch", result |-> Throw(req.error)]
    /\ UNCHANGED <<clock, uuids, heap, req>>

\* The error and what only it referred to are garbage.
Discard ==
    /\ req.op = "error"
    /\ heap' = ModuleScope(heap)
    /\ req' = NoRequest
    /\ call' = NoCall
    /\ UNCHANGED <<clock, uuids>>

ErrNext ==
    \/ ConstructCall
    \/ ToJSONCall
    \/ CallerWrite
    \/ EnvelopeWrite
    \/ RaiseAndCatch
    \/ Discard

ErrSpec == Init /\ [][ErrNext]_vars

(***************************************************************************)
(* Claims about the error taxonomy, checked under ErrSpec.                 *)
(***************************************************************************)
\* The members of ErrorCode whose number lies in [lo, lo + 1000).
Band(lo) == {ErrorCode[k] : k \in {m \in DOMAIN ErrorCode :
                                       ErrorCode[m] >= lo /\ ErrorCode[m] < lo + 1000}}

\* C11: ErrorCode has exactly 15 members with pairwise distinct numbers, in
\* five bands: 1001-1003, 2001-2003, 3001-3004, 4001-4002 and 5001-5003; an
\* error built with any of them carries a number of one of the bands.
C11_FifteenCodesInFiveBands ==
    /\ Cardinality(DOMAIN ErrorCode) = 15
    /\ \A k1, k2 \in DOMAIN ErrorCode : k1 # k2 => ErrorCode[k1] # ErrorCode[k2]
    /\ Band(1000) = {1001, 1002, 1003}
    /\ Band(2000) = {2001, 2002, 2003}
    /\ Band(3000) = {3001, 3002, 3003, 3004}
    /\ Band(4000) = {4001, 4002}
    /\ Band(5000) = {5001, 5002, 5003}
    /\ Codes = Band(1000) \cup Band(2000) \cup Band(3000) \cup Band(4000) \cup Band(5000)
    /\ req.op = "error" => req.made.code.v \in Codes

C11_Witness ==
    /\ req.op = "error"
    /\ req.how = "constructor"
    /\ req.made.code = Num(ErrorCode.NOT_FOUND)
    /\ req.made.code.v \in Band(3000)

\* The error under handling, the envelope of the toJSON() call just made.
Envelope == call.result.value.v

\* The metadata handed to the constructor: the caller's own argument for the
\* constructor and the pass-through factories, else what the factory passed.
SuppliedMetadata ==
    IF req.how \in PassThrough \cup {"constructor"}
    THEN req.args[Len(req.args)]
    ELSE ErrorProp(req.error, "metadata")

\* C12: the envelope of toJSON() has a metadata key exactly when metadata
\* was supplied at construction; the key is then deep-equal to the supplied
\* mapping, the empty mapping included, and is left out when none was.
C12_MetadataKeyIffSupplied ==
    (req.op = "error" /\ call.op = "toJSON") =>
        /\ "metadata" \in DOMAIN Envelope <=> SuppliedMetadata # Undefined
        /\ "metadata" \in DOMAIN Envelope =>
               Deep(heap, Envelope.metadata) = Deep(heap, SuppliedMetadata)

C12_Witness ==
    /\ req.op = "error"
    /\ req.how = "constructor"
    /\ req.given[3] = Object(EmptyProps)
    /\ call.op = "toJSON"
    /\ "metadata" \in DOMAIN Envelope
    /\ Deep(heap, Envelope.metadata) = Object(EmptyProps)

\* The code each factory stands for.
OriginCode ==
    [validationError |-> ErrorCode.INVALID_INPUT,
     missingField |-> ErrorCode.MISSING_REQUIRED_FIELD,
     missingSecret |-> ErrorCode.MISSING_SECRET,
     invalidSecret |-> ErrorCode.INVALID_SECRET,
     apiError |-> ErrorCode.API_ERROR,
     networkError |-> ErrorCode.NETWORK_ERROR,
     timeout |-> ErrorCode.TIMEOUT,
     notFound |-> ErrorCode.NOT_FOUND,
     rateLimitError |-> ErrorCode.RATE_LIMIT_EXCEEDED,
     quotaExceeded |-> ErrorCode.QUOTA_EXCEEDED,
     internalError |-> ErrorCode.INTERNAL_ERROR,
     notImplemented |-> ErrorCode.NOT_IMPLEMENTED,
     configurationError |-> ErrorCode.CONFIGURATION_ERROR]

\* C13: for an error built by the constructor or by any of the 13 factories,
\* toJSON() yields success = false, error = the error's message and code =
\* the code it was constructed with, which for a factory is its origin code.
C13_EnvelopeKeepsMessageAndCode ==
    (req.op = "error" /\ call.op = "toJSON") =>
        /\ Envelope.success = Bool(FALSE)
        /\ Envelope.error = req.made.message
        /\ Envelope.error = ErrorProp(req.error, "message")
        /\ Envelope.code = req.made.code
        /\ req.how = "constructor" =>
               /\ Envelope.code = req.given[1]
               /\ Envelope.error = req.given[2]
        /\ req.how # "constructor" =>
               /\ DOMAIN OriginCode = {c.how : c \in ErrorCalls} \ {"constructor"}
               /\ Envelope.code = Num(OriginCode[req.how])

C13_Witness ==
    /\ req.op = "error"
    /\ req.how = "rateLimitError"
    /\ call.op = "toJSON"
    /\ Envelope.code = Num(4001)
    /\ Envelope.error = Str("Rate limit exceeded")
    /\ Envelope.success = Bool(FALSE)

\* C14: a pass-through factory returns an error whose message is the given
\* message verbatim and whose metadata is the given mapping, contents and
\* all, or absent when none was given.
C14_PassThroughFactories ==
    (req.op = "error" /\ req.how \in PassThrough) =>
        /\ ErrorProp(req.error, "message") = req.given[1]
        /\ req.made.message = req.given[1]
        /\ ErrorProp(req.error, "metadata") = req.args[2]
        /\ req.made.metadata = req.given[2]
        /\ req.given[2] = Undefined => "metadata" \notin DOMAIN toJSON(req.error).v

C14_Witness ==
    /\ req.op = "error"
    /\ req.how = "networkError"
    /\ req.given = <<Str("External API failed"), Object([statusCode |-> Num(500)])>>
    /\ req.made.message = Str("External API failed")
    /\ req.made.metadata = Object([statusCode |-> Num(500)])

\* The first argument of the call that built the error, as a string.
GivenName == req.given[1].v

\* C15: missingField(n), missingSecret(n) and notImplemented(f) carry their
\* fixed message around the name and metadata {field}, {secretName},
\* {feature}; invalidSecret(n) says 'Secret "n" is invalid', and with a
\* reason given, whatever the reason, 'Secret "n" is invalid: reason'; both
\* carry {secretName: n}.
C15_NamedFactories ==
    req.op = "error" =>
        /\ req.how = "missingField" =>
               /\ req.made.message = Str("Required field \"" \o GivenName \o "\" is missing")
               /\ req.made.metadata = Object([field |-> Str(GivenName)])
        /\ req.how = "missingSecret" =>
               /\ req.made.message =
                      Str("Required secret \"" \o GivenName \o "\" is not configured")
               /\ req.made.metadata = Object([secretName |-> Str(GivenName)])
        /\ req.how = "notImplemented" =>
               /\ req.made.message = Str("Feature \"" \o GivenName \o "\" is not implemented")
               /\ req.made.metadata = Object([feature |-> Str(GivenName)])
        /\ req.how = "invalidSecret" =>
               /\ req.made.message =
                      IF req.given[2] = Undefined
                      THEN Str("Secret \"" \o GivenName \o "\" is invalid")
                      ELSE Str("Secret \"" \o GivenName \o "\" is invalid: " \o req.given[2].v)
               /\ req.made.metadata = Object([secretName |-> Str(GivenName)])

\* C16: timeout(operation, timeoutMs?) and rateLimitError(retryAfter?) have
\* their fixed message, and metadata {timeoutMs} resp. {retryAfter} exactly
\* when the number was given, 0 included; no metadata when it was left out.
C16_NumericMetadataWhenGiven ==
    req.op = "error" =>
        /\ req.how = "timeout" =>
               /\ req.made.message = Str("Operation \"" \o GivenName \o "\" timed out")
               /\ req.made.metadata =
                      IF req.given[2] = Undefined THEN Undefined
                      ELSE Object([timeoutMs |-> req.given[2]])
        /\ req.how = "rateLimitError" =>
               /\ req.made.message = Str("Rate limit exceeded")
               /\ req.made.metadata =
                      IF req.given[1] = Undefined THEN Undefined
                      ELSE Object([retryAfter |-> req.given[1]])

\* C17: notFound(resource, identifier?) and quotaExceeded(quotaType?) use
\* the long message and carry {identifier} resp. {quotaType} when the string
\* was given, the empty string included; the short message and no metadata
\* when it was left out.
C17_StringMetadataWhenGiven ==
    req.op = "error" =>
        /\ req.how = "notFound" =>
               IF req.given[2] = Undefined
               THEN /\ req.made.message = Str(GivenName \o " not found")
                    /\ req.made.metadata = Undefined
               ELSE /\ req.made.message =
                           Str(GivenName \o " \"" \o req.given[2].v \o "\" not found")
                    /\ req.made.metadata = Object([identifier |-> req.given[2]])
        /\ req.how = "quotaExceeded" =>
               IF req.given[1] = Undefined
               THEN /\ req.made.message = Str("Quota exceeded")
                    /\ req.made.metadata = Undefined
               ELSE /\ req.made.message = Str(req.given[1].v \o " quota exceeded")
                    /\ req.made.metadata = Object([quotaType |-> req.given[1]])

\* C18: a ModuleError is never changed after construction: whatever
\* toJSON() calls and writes to the mapping passed as metadata or to the
\* metadata of a returned envelope have happened, code, message and metadata
\* equal the constructed values and toJSON() returns what it first returned.
C18_NeverMutated ==
    req.op = "error" =>
        /\ Fields(heap, req.error) = req.made
        /\ call.op = "toJSON" => Deep(heap, call.result.value) = req.first

\* The value the handler of a raised error is given.
Caught == call.result.value

\* C19: a raised ModuleError reaches the handler as the value raised: an
\* Error, a ModuleError, named 'ModuleError', with the code, message and
\* metadata it was raised with.
C19_RaiseAndCatch ==
    (req.op = "error" /\ call.op = "catch") =>
        /\ call.result.outcome = "throw"
        /\ "Error" \in Caught.v.classes
        /\ "ModuleError" \in Caught.v.classes
        /\ ErrorProp(Caught, "name") = Str("ModuleError")
        /\ ErrorProp(Caught, "code") = ErrorProp(req.error, "code")
        /\ ErrorProp(Caught, "message") = ErrorProp(req.error, "message")
        /\ ErrorProp(Caught, "metadata") = ErrorProp(req.error, "metadata")
        /\ Fields(heap, Caught) = Fields(heap, req.error)

C19_Witness ==
    /\ req.op = "error"
    /\ req.how = "apiError"
    /\ call.op = "catch"
    /\ ErrorProp(Caught, "name") = Str("ModuleError")
    /\ ErrorProp(Caught, "code") = Num(3001)
    /\ Fields(heap, Caught).metadata = Object([statusCode |-> Num(500)])

(***************************************************************************)
(* The response envelope schemas (schemas.ts), with the zod combinators    *)
(* they are built from.  A schema is its kind and its argument.            *)
(***************************************************************************)
ZString == [kind |-> "string", arg |-> Undefined]
ZNumber == [kind |-> "number", arg |-> Undefined]
ZBoolean == [kind |-> "boolean", arg |-> Undefined]
ZLiteral(value) == [kind |-> "literal", arg |-> value]
ZObject(shape) == [kind |-> "object", arg |-> shape]
ZUnion(options) == [kind |-> "union", arg |-> options]

\* Does a string, number, boolean or literal schema take the value?
Valid(schema, value) ==
    CASE schema.kind = "literal" -> value = schema.arg
      [] OTHER -> value.t = schema.kind

\* z.object(shape) on a value: every key of the shape must hold a valid
\* value (a missing key reads undefined); keys outside the shape are dropped.
ObjectAccepts(shape, value) ==
    /\ value.t = "object"
    /\ \A k \in DOMAIN shape :
           Valid(shape[k], IF k \in DOMAIN value.v THEN value.v[k] ELSE Undefined)

ObjectOutput(shape, value) == Object([k \in DOMAIN shape |-> value.v[k]])

\* The error zod raises for a value no schema takes.
ZodError == ErrorValue({"Error", "ZodError"}, [name |-> Str("ZodError")])

\* schema.parse(value) for z.union([z.object(..), ..]): the output of the
\* first option that takes the value, or a ZodError raised.
parse(schema, value) ==
    LET options == schema.arg
        taking == {i \in DOMAIN options : ObjectAccepts(options[i].arg, value)}
    IN  IF taking = {} THEN Throw(ZodError)
        ELSE Return(ObjectOutput(
                 options[CHOOSE i \in taking : \A j \in taking : i <= j].arg, value))

\* SuccessResponseSchema(dataSchema), dataSchema being z.object(shape)
SuccessResponseSchema(dataSchema) ==
    ZUnion(<<ZObject(Spread([success |-> ZLiteral(Bool(TRUE))], dataSchema.arg)),
             ZObject([success |-> ZLiteral(Bool(FALSE)), error |-> ZString])>>)

SimpleSuccessSchema ==
    ZUnion(<<ZObject([success |-> ZLiteral(Bool(TRUE))]),
             ZObject([success |-> ZLiteral(Bool(FALSE)), error |-> ZString])>>)

\* Payload shapes: any of the fields x, success and error, each a string, a
\* number or a boolean.
PayloadFields == {"x", "success", "error"}
FieldSchemas == {ZString, ZNumber, ZBoolean}
PayloadShapes == UNION {[F -> FieldSchemas] : F \in SUBSET PayloadFields}

\* The values handed to parse: objects with any of success, error and x
\* (Undefined stands for a key left out), and two values that are no objects.
SuccessValues == {Bool(TRUE), Bool(FALSE), Str("true")}
ErrorValues == {Str("e"), Num(1)}
XValues == {Num(1), Str("1")}
EnvelopeOf(s, e, x) ==
    Object(Spread(Spread(IF s = Undefined THEN EmptyProps ELSE [success |-> s],
                         IF e = Undefined THEN EmptyProps ELSE [error |-> e]),
                  IF x = Undefined THEN EmptyProps ELSE [x |-> x]))
ParsedValues ==
    {EnvelopeOf(s, e, x) : s \in SuccessValues \cup {Undefined},
                           e \in ErrorValues \cup {Undefined},
                           x \in XValues \cup {Undefined}}
    \cup {Null, Str("success")}

\* A module defines an output schema.
DefineSchema ==
    /\ req.op = "none"
    /\ \/ \E P \in PayloadShapes :
            req' = [op |-> "schema", of |-> "SuccessResponseSchema", shape |-> P,
                    schema |-> SuccessResponseSchema(ZObject(P))]
       \/ req' = [op |-> "schema", of |-> "SimpleSuccessSchema", shape |-> EmptyProps,
                  schema |-> SimpleSuccessSchema]
    /\ call' = NoCall
    /\ UNCHANGED <<clock, uuids, heap>>

\* schema.parse(value)
ParseCall ==
    /\ req.op = "schema"
    /\ \E value \in ParsedValues :
           call' = [op |-> "parse", value |-> value, result |-> parse(req.schema, value)]
    /\ UNCHANGED <<clock, uuids, heap, req>>

\* The module is done with the schema.
DropSchema ==
    /\ req.op = "schema"
    /\ req' = NoRequest
    /\ call' = NoCall
    /\ UNCHANGED <<clock, uuids, heap>>

\* A handler catches a ModuleError and validates error.toJSON() against its
\* output schema.
ParseEnvelopeCall ==
    /\ req.op = "schema"
    /\ \E c \in ErrorCalls :
           LET error == MakeError(c.how, c.args)
           IN  call' = [op |-> "parseEnvelope", error |-> error,
                        value |-> toJSON(error),
                        result |-> parse(req.schema, toJSON(error))]
    /\ UNCHANGED <<clock, uuids, heap, req>>

SchemaNext ==
    \/ DefineSchema
    \/ ParseCall
    \/ ParseEnvelopeCall
    \/ DropSchema

SchemaSpec == Init /\ [][SchemaNext]_vars

(***************************************************************************)
(* Claims about the response envelope schemas, checked under SchemaSpec.   *)
(***************************************************************************)
\* value[key] on the value parsed, Undefined for a key it lacks or if the
\* value is no object.
Field(value, key) ==
    IF value.t = "object" /\ key \in DOMAIN value.v THEN value.v[key] ELSE Undefined

\* C20: SuccessResponseSchema(P) accepts a value exactly when its success
\* is literally true and every field of P is present and valid, or its
\* success is literally false and its error is a string; so a value without
\* success, {success: true} lacking a field of P and {success: false}
\* lacking error are rejected, and {success: false, error: 'e'} is accepted
\* without any field of P.
C20_AcceptsExactlyTheTwoShapes ==
    (req.op = "schema" /\ req.of = "SuccessResponseSchema" /\ call.op = "parse") =>
        (call.result.outcome = "return" <=>
            /\ call.value.t = "object"
            /\ \/ /\ Field(call.value, "success") = Bool(TRUE)
                  /\ \A f \in DOMAIN req.shape :
                         /\ f \in DOMAIN call.value.v
                         /\ Valid(req.shape[f], call.value.v[f])
               \/ /\ Field(call.value, "success") = Bool(FALSE)
                  /\ Field(call.value, "error").t = "string")

\* The option of the union that takes the value parsed: 1 is the success
\* branch, 2 the error branch, 0 stands for none.
Branch ==
    LET taking == {i \in DOMAIN req.schema.arg :
                      ObjectAccepts(req.schema.arg[i].arg, call.value)}
    IN  IF taking = {} THEN 0 ELSE CHOOSE i \in taking : \A j \in taking : i <= j

\* C21: the envelope toJSON() makes of any ModuleError is accepted by
\* SuccessResponseSchema(P) for every P and by SimpleSuccessSchema, through
\* the error branch, and the parsed result has success = false and error =
\* the error's message.
C21_ErrorEnvelopeParses ==
    (req.op = "schema" /\ call.op = "parseEnvelope") =>
        /\ call.result.outcome = "return"
        /\ Branch = 2
        /\ Field(call.result.value, "success") = Bool(FALSE)
        /\ Field(call.result.value, "error") = ErrorProp(call.error, "message")

\* C28: for every payload shape P, one declaring 'success' or 'error'
\* included, a value SuccessResponseSchema(P) accepts has success literally
\* true if the success branch took it and literally false if the error
\* branch did; no payload field replaces the literal.
C28_LiteralDiscriminant ==
    (req.op = "schema" /\ call.op \in {"parse", "parseEnvelope"}
        /\ call.result.outcome = "return") =>
        \/ Branch = 1 /\ Field(call.value, "success") = Bool(TRUE)
                      /\ Field(call.result.value, "success") = Bool(TRUE)
        \/ Branch = 2 /\ Field(call.value, "success") = Bool(FALSE)
                      /\ Field(call.result.value, "success") = Bool(FALSE)

(***************************************************************************)
(* The validators (validators.ts), with the zod checks they chain.  Here a *)
(* string is the sequence of its characters, so that it can be split,      *)
(* trimmed and measured; a number is an integer, an integer and a half,    *)
(* an infinity or NaN.                                                     *)
(***************************************************************************)
Text(chars) == [t |-> "string", v |-> chars]
Array(items) == [t |-> "array", v |-> items]
Half(n) == [t |-> "number", v |-> n, plus |-> "half"]
Infinity(sign) == [t |-> "number", v |-> sign, plus |-> "infinite"]
NaN == [t |-> "number", v |-> 0, plus |-> "NaN"]

\* Number.isInteger(x), x >= n, x > n and x <= n for a number x and an integer n
IsInteger(x) == "plus" \notin DOMAIN x
IsInfinite(x) == ~IsInteger(x) /\ x.plus = "infinite"
AtLeast(x, n) == IF IsInfinite(x) THEN x.v > 0 ELSE x.v >= n
Above(x, n) ==
    IF IsInfinite(x) THEN x.v > 0 ELSE IF IsInteger(x) THEN x.v > n ELSE x.v >= n
AtMost(x, n) ==
    IF IsInfinite(x) THEN x.v < 0 ELSE IF IsInteger(x) THEN x.v <= n ELSE x.v < n

\* What String.prototype.trim() removes.
Whitespace == {" ", "\t", "\n"}

RECURSIVE trimStart(_)
trimStart(chars) ==
    IF chars = <<>> \/ Head(chars) \notin Whitespace THEN chars
    ELSE trimStart(Tail(chars))

RECURSIVE trimEnd(_)
trimEnd(chars) ==
    IF chars = <<>> \/ chars[Len(chars)] \notin Whitespace THEN chars
    ELSE trimEnd(SubSeq(chars, 1, Len(chars) - 1))

\* s.trim()
trim(chars) == trimEnd(trimStart(chars))

\* s.split(','): the pieces between the commas, in order; one piece, the
\* string itself, when there is no comma.
RECURSIVE split(_)
split(chars) ==
    IF \A i \in DOMAIN chars : chars[i] # ","
    THEN <<chars>>
    ELSE LET i == CHOOSE k \in DOMAIN chars :
                      chars[k] = "," /\ \A j \in 1..(k - 1) : chars[j] # ","
         IN  <<SubSeq(chars, 1, i - 1)>> \o split(SubSeq(chars, i + 1, Len(chars)))

\* s.startsWith(prefix)
startsWith(chars, prefix) ==
    Len(prefix) <= Len(chars) /\ SubSeq(chars, 1, Len(prefix)) = prefix

\* The characters written out as one string, as a template literal does.
RECURSIVE Flat(_)
Flat(chars) == IF chars = <<>> THEN "" ELSE Head(chars) \o Flat(Tail(chars))

\* z.string().email() on a string of letters, '.', '@' and whatever else:
\* one '@'; before it letters and dots, not starting with a dot, ending in a
\* letter; after it two or more dot-separated labels of letters, the last
\* of two letters or more; no two dots in a row anywhere.
Letters == {"a", "b", "c", "d", "e"}
IsEmail(chars) ==
    /\ \A i \in DOMAIN chars : chars[i] \in Letters \cup {".", "@"}
    /\ Cardinality({i \in DOMAIN chars : chars[i] = "@"}) = 1
    /\ LET at == CHOOSE i \in DOMAIN chars : chars[i] = "@"
           n == Len(chars)
       IN  /\ at > 1
           /\ chars[1] # "."
           /\ chars[at - 1] \in Letters
           /\ \A i \in 1..(n - 1) : ~(chars[i] = "." /\ chars[i + 1] = ".")
           /\ at + 1 <= n
           /\ chars[at + 1] \in Letters
           /\ \E dot \in (at + 2)..(n - 2) :
                  /\ chars[dot] = "."
                  /\ \A i \in (dot + 1)..n : chars[i] \in Letters

\* The ZodError parse raises, with the messages (or codes) of its issues.
ZodErrorOf(issues) ==
    ErrorValue({"Error", "ZodError"}, [name |-> Str("ZodError"), issues |-> issues])

\* schema.parse: the output if no check raised an issue, else a ZodError.
Outcome(issues, output) ==
    IF issues = {} THEN Return(output) ELSE Throw(ZodErrorOf(issues))

\* z.number(): a number other than NaN.
IsNumber(input) == input.t = "number" /\ (IsInteger(input) \/ input.plus # "NaN")

\* z.string()
IsString(input) == input.t = "string"

\* positiveInt with >= in place of >.
positiveIntOrZero(input) ==
    Outcome(IF ~IsNumber(input) THEN {"invalid_type"}
            ELSE (IF IsInteger(input) THEN {} ELSE {"not_integer"})
                 \cup (IF AtLeast(input, 0) THEN {} ELSE {"too_small"}),
            input)

\* validators.positiveInt().parse(input): z.number().int().positive()
positiveInt(input) ==
    Outcome(IF ~IsNumber(input) THEN {"invalid_type"}
            ELSE (IF IsInteger(input) THEN {} ELSE {"not_integer"})
                 \cup (IF Above(input, 0) THEN {} ELSE {"too_small"}),
            input)

\* validators.nonNegativeInt().parse(input): z.number().int().nonnegative()
nonNegativeInt(input) ==
    Outcome(IF ~IsNumber(input) THEN {"invalid_type"}
            ELSE (IF IsInteger(input) THEN {} ELSE {"not_integer"})
                 \cup (IF AtLeast(input, 0) THEN {} ELSE {"too_small"}),
            input)

\* port with the upper end forgotten: z.number().int().min(1)
portUnbounded(input) ==
    Outcome(IF ~IsNumber(input) THEN {"invalid_type"}
            ELSE (IF IsInteger(input) THEN {} ELSE {"not_integer"})
                 \cup (IF AtLeast(input, 1) THEN {} ELSE {"too_small"}),
            input)

\* validators.port().parse(input): z.number().int().min(1).max(65535)
port(input) ==
    Outcome(IF ~IsNumber(input) THEN {"invalid_type"}
            ELSE (IF IsInteger(input) THEN {} ELSE {"not_integer"})
                 \cup (IF AtLeast(input, 1) THEN {} ELSE {"too_small"})
                 \cup (IF AtMost(input, 65535) THEN {} ELSE {"too_big"}),
            input)

\* apiKey dropping its prefix requirement: only min(10) is checked.
apiKeyAnyPrefix(prefix, input) ==
    Outcome(IF ~IsString(input) THEN {"invalid_type"}
            ELSE IF Len(input.v) >= 10 THEN {}
                 ELSE {"API key must be at least 10 characters"},
            input)

\* validators.apiKey(prefix).parse(input): prefix is a string or Undefined.
\* A refinement runs also when min(10) has raised its issue.
apiKey(prefix, input) ==
    Outcome(IF ~IsString(input) THEN {"invalid_type"}
            ELSE (IF Len(input.v) >= 10 THEN {}
                  ELSE {"API key must be at least 10 characters"})
                 \cup (IF prefix.t = "string" /\ prefix.v # <<>>
                          /\ ~startsWith(input.v, prefix.v)
                       THEN {"API key must start with \"" \o Flat(prefix.v) \o "\""}
                       ELSE {}),
            input)

\* optionalString taking a blank string for an empty one.
optionalStringBlank(input) ==
    Outcome(IF IsString(input) \/ input = Undefined THEN {} ELSE {"invalid_type"},
            IF IsString(input) /\ trim(input.v) = <<>> THEN Undefined ELSE input)

\* validators.optionalString().parse(input):
\* z.string().optional().transform((val) => (val === '' ? undefined : val))
optionalString(input) ==
    Outcome(IF IsString(input) \/ input = Undefined THEN {} ELSE {"invalid_type"},
            IF input = Text(<<>>) THEN Undefined ELSE input)

\* trimmedString measuring before it trims: z.string().min(1, ...).trim()
trimmedStringMinFirst(input) ==
    Outcome(IF ~IsString(input) THEN {"invalid_type"}
            ELSE IF Len(input.v) >= 1 THEN {} ELSE {"String cannot be empty"},
            IF IsString(input) THEN Text(trim(input.v)) ELSE input)

\* validators.trimmedString().parse(input): z.string().trim().min(1, ...)
trimmedString(input) ==
    Outcome(IF ~IsString(input) THEN {"invalid_type"}
            ELSE IF Len(trim(input.v)) >= 1 THEN {} ELSE {"String cannot be empty"},
            IF IsString(input) THEN Text(trim(input.v)) ELSE input)

\* z.array(z.string().email()) takes the input
IsEmailArray(input) ==
    /\ input.t = "array"
    /\ \A i \in DOMAIN input.v : IsString(input.v[i]) /\ IsEmail(input.v[i].v)

\* The transform without the trimming: (s) => s.split(',')
SplitUntrimmed(chars) ==
    LET pieces == split(chars)
    IN  Array([i \in DOMAIN pieces |-> Text(pieces[i])])

\* (s) => s.split(',').map((e) => e.trim())
SplitAndTrim(chars) ==
    LET pieces == split(chars)
    IN  Array([i \in DOMAIN pieces |-> Text(trim(pieces[i]))])

\* validators.emailList().parse(input): the array schema, or else the
\* string schema whose transform is piped into the array schema.
emailList(input) ==
    IF IsEmailArray(input) THEN Return(input)
    ELSE IF IsString(input) /\ IsEmailArray(SplitAndTrim(input.v))
         THEN Return(SplitAndTrim(input.v))
         ELSE Throw(ZodErrorOf({"invalid_union"}))

(***************************************************************************)
(* The calls a module makes on the validators.                             *)
(***************************************************************************)
ValidatorNames ==
    {"emailList", "port", "positiveInt", "nonNegativeInt", "apiKey",
     "optionalString", "trimmedString"}

\* validators.<name>(prefix).parse(input)
Validate(name, prefix, input) ==
    CASE name = "emailList" -> emailList(input)
      [] name = "port" -> port(input)
      [] name = "positiveInt" -> positiveInt(input)
      [] name = "nonNegativeInt" -> nonNegativeInt(input)
      [] name = "apiKey" -> apiKey(prefix, input)
      [] name = "optionalString" -> optionalString(input)
      [] name = "trimmedString" -> trimmedString(input)

NumberInputs ==
    {Num(n) : n \in {-2, -1, 0, 1, 2, 42, 65534, 65535, 65536}}
    \cup {Half(n) : n \in {-1, 0, 1, 3, 65535}}
    \cup {Infinity(1), Infinity(-1), NaN, Text(<<"8", "0">>), Undefined}

\* Strings of up to MaxTextLen characters, whitespace among them.
TextInputs ==
    {Text(chars) : chars \in UNION {[1..n -> {" ", "\t", "a"}] : n \in 0..MaxTextLen}}
    \cup {Undefined, Null, Num(1)}

\* Keys around the length 10, with and without a prefix.
Pad(n) == [i \in 1..n |-> "1"]
KeyPrefixes == {<<>>, <<"s", "k", "-">>, <<"r", "e", "_">>}
KeyInputs ==
    {Text(p \o Pad(n)) : p \in KeyPrefixes \cup {<<"p", "k", "-">>, <<"x", "s", "k", "-">>},
                         n \in {0, 5, 6, 7, 10}}
    \cup {Undefined, Num(1234567890)}

\* Comma-separated lists of up to MaxSegments segments and arrays of as many
\* elements: addresses, an address with whitespace around it, and segments
\* that are no address.
Address1 == <<"a", "@", "b", ".", "c", "c">>
Address2 == <<"d", ".", "e", "@", "a", ".", "b", ".", "d", "e">>
Segments ==
    {Address1, <<" ">> \o Address2, Address2 \o <<"\t">>, <<"a", "@", "b">>, <<>>, <<" ">>}
RECURSIVE Join(_)
Join(segments) ==
    IF Len(segments) = 1 THEN segments[1]
    ELSE segments[1] \o <<",">> \o Join(Tail(segments))
ListInputs ==
    {Text(Join(segs)) : segs \in UNION {[1..n -> Segments] : n \in 1..MaxSegments}}
    \cup {Array([i \in DOMAIN segs |-> Text(segs[i])]) :
             segs \in UNION {[1..n -> Segments] : n \in 0..MaxSegments}}
    \cup {Array(<<Text(Address1), Num(1)>>), Undefined, Num(1)}

Inputs(name) ==
    CASE name = "emailList" -> ListInputs
      [] name \in {"port", "positiveInt", "nonNegativeInt"} -> NumberInputs
      [] name = "apiKey" -> KeyInputs
      [] OTHER -> TextInputs

\* A module obtains a validator; apiKey takes its optional prefix.
MakeValidator ==
    /\ req.op = "none"
    /\ \E name \in ValidatorNames :
       \E prefix \in IF name = "apiKey"
                     THEN {Undefined} \cup {Text(p) : p \in KeyPrefixes}
                     ELSE {Undefined} :
           req' = [op |-> "validator", name |-> name, prefix |-> prefix]
    /\ call' = NoCall
    /\ UNCHANGED <<clock, uuids, heap>>

\* validator.parse(input)
ValidateCall ==
    /\ req.op = "validator"
    /\ \E input \in Inputs(req.name) :
           call' = [op |-> "validate", input |-> input,
                    result |-> Validate(req.name, req.prefix, input)]
    /\ UNCHANGED <<clock, uuids, heap, req>>

\* The module is done with the validator.
DropValidator ==
    /\ req.op = "validator"
    /\ req' = NoRequest
    /\ call' = NoCall
    /\ UNCHANGED <<clock, uuids, heap>>

ValidatorNext ==
    \/ MakeValidator
    \/ ValidateCall
    \/ DropValidator

ValidatorSpec == Init /\ [][ValidatorNext]_vars

(***************************************************************************)
(* Claims about the validators, checked under ValidatorSpec.               *)
(***************************************************************************)
Validated(name) == req.op = "validator" /\ req.name = name /\ call.op = "validate"
Accepted == call.result.outcome = "return"
Rejected == call.result.outcome = "throw"
Reasons == ErrorProp(call.result.value, "issues")

\* The characters of a string that are no whitespace, in order.
RECURSIVE Solid(_)
Solid(chars) ==
    IF chars = <<>> THEN <<>>
    ELSE (IF Head(chars) \in Whitespace THEN <<>> ELSE <<Head(chars)>>) \o Solid(Tail(chars))

\* C22: emailList returns an array of valid emails unchanged; a string it
\* splits on commas, trims each segment and returns the trimmed segments in
\* order if each is a valid email; it rejects the input if any element or
\* segment is no valid email, the empty segment included.
C22_EmailList ==
    Validated("emailList") =>
        /\ call.input.t = "array" =>
               IF \A i \in DOMAIN call.input.v :
                      call.input.v[i].t = "string" /\ IsEmail(call.input.v[i].v)
               THEN call.result = Return(call.input)
               ELSE Rejected
        /\ call.input.t = "string" =>
               LET segments == split(call.input.v)
               IN  IF \A i \in DOMAIN segments : IsEmail(trim(segments[i]))
                   THEN /\ Accepted
                        /\ call.result.value.t = "array"
                        /\ Len(call.result.value.v) =
                               1 + Cardinality({i \in DOMAIN call.input.v :
                                                   call.input.v[i] = ","})
                        /\ \A i \in DOMAIN segments :
                               call.result.value.v[i] = Text(trim(segments[i]))
                        /\ Join([i \in DOMAIN segments |-> call.result.value.v[i].v])
                               = Solid(call.input.v)
                   ELSE Rejected
        /\ call.input.t \notin {"array", "string"} => Rejected

C22_Witness ==
    /\ Validated("emailList")
    /\ call.input = Text(Address1 \o <<",", " ">> \o Address2)
    /\ call.result = Return(Array(<<Text(Address1), Text(Address2)>>))

\* The input is the integer call.input.v.
WholeInput == call.input.t = "number" /\ call.input = Num(call.input.v)

\* C23: port accepts a number n exactly when n is an integer with
\* 1 <= n <= 65535 and returns it unchanged; 1 and 65535 pass, 0, 65536,
\* the negative integers and the non-integers do not.
C23_Port ==
    (Validated("port") /\ call.input.t = "number") =>
        /\ Accepted <=> (WholeInput /\ call.input.v >= 1 /\ call.input.v <= 65535)
        /\ Accepted => call.result = Return(call.input)
        /\ call.input \in {Num(1), Num(65535)} => Accepted
        /\ call.input \in {Num(0), Num(65536), Num(-1), Half(1), Half(65535)} => Rejected

C23_Witness ==
    /\ Validated("port")
    /\ call.input = Num(65535)
    /\ call.result = Return(Num(65535))

\* C24: positiveInt accepts exactly the integers n > 0, nonNegativeInt
\* exactly the integers n >= 0, each returning its input unchanged; on a
\* number the two decide differently only for 0.
C24_PositiveAndNonNegativeInt ==
    /\ (Validated("positiveInt") /\ call.input.t = "number") =>
           /\ Accepted <=> (WholeInput /\ call.input.v > 0)
           /\ Accepted => call.result = Return(call.input)
    /\ (Validated("nonNegativeInt") /\ call.input.t = "number") =>
           /\ Accepted <=> (WholeInput /\ call.input.v >= 0)
           /\ Accepted => call.result = Return(call.input)
    /\ ((Validated("positiveInt") \/ Validated("nonNegativeInt"))
           /\ call.input.t = "number") =>
           (positiveInt(call.input).outcome # nonNegativeInt(call.input).outcome
               <=> call.input = Num(0))

C24_Witness ==
    /\ Validated("nonNegativeInt")
    /\ call.input = Num(0)
    /\ call.result = Return(Num(0))
    /\ positiveInt(Num(0)).outcome = "throw"

\* The key begins with the characters of the prefix, one by one.
BeginsWith(key, prefix) ==
    \A i \in DOMAIN prefix : i <= Len(key) /\ key[i] = prefix[i]

\* C25: apiKey(prefix?) accepts a string exactly when it has 10 characters
\* or more, the prefix counted, and begins with the prefix if one was given;
\* a shorter key is rejected with 'API key must be at least 10 characters',
\* a long enough key without the prefix with 'API key must start with
\* "<prefix>"'; the prefix stays what it was at construction.
C25_ApiKey ==
    [][/\ (req.op = "validator" /\ req'.op = "validator") => req'.prefix = req.prefix
       /\ (req'.op = "validator" /\ req'.name = "apiKey" /\ call'.op = "validate"
              /\ call'.input.t = "string") =>
              LET key == call'.input.v
                  given == req'.prefix # Undefined
                  prefixed == given => BeginsWith(key, req'.prefix.v)
                  issues == ErrorProp(call'.result.value, "issues")
              IN  /\ call'.result.outcome = "return" <=> (Len(key) >= 10 /\ prefixed)
                  /\ call'.result.outcome = "return" => call'.result.value = call'.input
                  /\ Len(key) < 10 =>
                         /\ call'.result.outcome = "throw"
                         /\ "API key must be at least 10 characters" \in issues
                  /\ (Len(key) >= 10 /\ ~prefixed) =>
                         /\ call'.result.outcome = "throw"
                         /\ issues = {"API key must start with \""
                                         \o Flat(req'.prefix.v) \o "\""}
      ]_vars

C25_Witness ==
    /\ Validated("apiKey")
    /\ req.prefix = Text(<<"s", "k", "-">>)
    /\ call.input = Text(<<"p", "k", "-">> \o Pad(10))
    /\ Rejected
    /\ Reasons = {"API key must start with \"sk-\""}

\* C26: optionalString returns a non-empty string unchanged, whitespace-only
\* ones included, returns undefined for undefined and for the empty string
\* and for nothing else, and rejects neither a string nor undefined.
C26_OptionalString ==
    (Validated("optionalString") /\ call.input.t \in {"string", "undefined"}) =>
        /\ Accepted
        /\ (call.input.t = "string" /\ Len(call.input.v) > 0) =>
               call.result.value = call.input
        /\ call.result.value = Undefined <=>
               (call.input = Undefined \/ call.input = Text(<<>>))

C26_Witness ==
    /\ Validated("optionalString")
    /\ call.input = Text(<<" ", "\t">>)
    /\ call.result = Return(Text(<<" ", "\t">>))

\* C27: trimmedString returns the input without its leading and trailing
\* whitespace, a non-empty string that neither starts nor ends with
\* whitespace, or rejects with 'String cannot be empty' exactly when the
\* input is empty or all whitespace; applied to its output it returns it.
C27_TrimmedString ==
    (Validated("trimmedString") /\ call.input.t = "string") =>
        LET in == call.input.v
            blank == \A i \in DOMAIN in : in[i] \in Whitespace
        IN  /\ Rejected <=> blank
            /\ Rejected => Reasons = {"String cannot be empty"}
            /\ Accepted =>
                   LET out == call.result.value.v
                   IN  /\ call.result.value.t = "string"
                       /\ Len(out) > 0
                       /\ out[1] \notin Whitespace
                       /\ out[Len(out)] \notin Whitespace
                       /\ \E i, j \in DOMAIN in :
                              /\ out = SubSeq(in, i, j)
                              /\ \A k \in DOMAIN in : (k < i \/ k > j) => in[k] \in Whitespace
                       /\ trimmedString(call.result.value) = call.result

C27_Witness ==
    /\ Validated("trimmedString")
    /\ call.input = Text(<<" ", "a", "\t">>)
    /\ call.result = Return(Text(<<"a">>))

(***************************************************************************)
(* Further claims about the context resolver, checked under Spec.          *)
(***************************************************************************)
\* C29: a secret lookup depends only on the entries stored in
\* context.secrets: for a name that is no key of the mapping, also one a
\* plain object inherits, getOptionalSecret returns undefined and
\* getRequiredSecret raises; what either returns is undefined or a string
\* stored in the mapping.
C29_LookupOnlyOwnEntries ==
    (req.op # "none" /\ call.op \in {"getRequiredSecret", "getOptionalSecret"}) =>
        /\ call.name \notin DOMAIN CurrentSecrets =>
               IF call.op = "getOptionalSecret"
               THEN call.result = Return(Undefined)
               ELSE /\ call.result.outcome = "throw"
                    /\ ErrorProp(call.result.value, "message") =
                           Str(MissingSecretMessage(call.name))
        /\ (call.result.outcome = "return" /\ call.result.value # Undefined) =>
               /\ call.result.value.t = "string"
               /\ \E k \in DOMAIN CurrentSecrets : CurrentSecrets[k] = call.result.value

\* What extractContext would return, in the world of the request being
\* handled, for a body without a context field.
ForNoContext == extractContext(Object(EmptyProps), req.world)

\* C30: for a body whose context is {} or null, extractContext returns the
\* userId, displayName, conversationId, timestamp, requestId and secrets
\* contents it returns, at the same clock reading and identifier count, for
\* a body without a context field.
C30_EmptyContextLikeAbsent ==
    (req.op = "extractContext" /\ "context" \in DOMAIN req.body.v
        /\ (RequestContext = Null \/ RequestContext = Object(EmptyProps))) =>
        /\ \A f \in ContextFields \ {"secrets"} :
               Returned(f) = Get(ForNoContext.heap, ForNoContext.ret, f)
        /\ req.returnedSecrets = SecretsOf(ForNoContext.heap, ForNoContext.ret)

====
